---------------------------- MODULE Spec2Model ----------------------------
(***************************************************************************)
(* Model of the panic-data decoder of ipcc-data (src/ipcc-data/src/lib.rs):*)
(* PanicData::from_bytes, fix_panic_data, PanicData::from_v1 and           *)
(* PanicData::from_v2, over byte buffers laid out as IpccPanicDataV1 and   *)
(* IpccPanicDataV2.                                                        *)
(*                                                                         *)
(* Bytes are integers 0..255.  A multi-byte integer field is kept as the   *)
(* little-endian sequence of its bytes, so that 32- and 64-bit values keep *)
(* their exact width.  Option<T> is <<>> (None) or <<x>> (Some(x)).  A     *)
(* String is the sequence of its UTF-8 bytes.                              *)
(***************************************************************************)
EXTENDS Integers, Sequences, FiniteSets, TLC

VARIABLES
    sent,     \* the record the host encoded (what the buffer was made from)
    d,        \* the buffer handed to PanicData::from_bytes
    pc,       \* position in from_bytes: "start", "fixed", "done"
    version,  \* Option<PanicDataVersion> returned by fix_panic_data
    data,     \* the buffer returned by fix_panic_data
    parser,   \* which layout parser ran: "none", "v1", "v2"
    result    \* the value returned by from_bytes

vars == <<sent, d, pc, version, data, parser, result>>

-----------------------------------------------------------------------------
(* Byte-sequence helpers *)

Rep(n, b) == IF n = 0 THEN <<>> ELSE [i \in 1..n |-> b]

Max(a, b) == IF a >= b THEN a ELSE b

Min(a, b) == IF a <= b THEN a ELSE b

AllZeroBytes(s) == \A i \in 1..Len(s) : s[i] = 0

\* u16 read in little-endian order
U16LE(bs) == bs[1] + 256 * bs[2]

\* `value < n` for a little-endian 32-bit value and a bound n <= 65536
U32LessThan(bs, n) == bs[3] = 0 /\ bs[4] = 0 /\ U16LE(bs) < n

\* Mutant of TryIntoU32: a truncating cast (`as u32`) that never fails
TruncateToU32(bs) == <<SubSeq(bs, 1, 4)>>

\* u64 -> u32 TryInto: Some(low four bytes) when the high four are zero
TryIntoU32(bs) ==
    IF AllZeroBytes(SubSeq(bs, 5, 8)) THEN <<SubSeq(bs, 1, 4)>> ELSE <<>>

-----------------------------------------------------------------------------
(* UTF-8: std::str::from_utf8 and String::from_utf8_lossy *)

IsCont(b) == b >= 128 /\ b <= 191

\* Length of the well-formed scalar starting at s[i], or the negated length
\* of the maximal invalid prefix there.
Utf8Step(s, i) ==
    LET n  == Len(s)
        b0 == s[i]
        b1 == IF i + 1 <= n THEN s[i + 1] ELSE -1
        b2 == IF i + 2 <= n THEN s[i + 2] ELSE -1
        b3 == IF i + 3 <= n THEN s[i + 3] ELSE -1
        second3 == CASE b0 = 224 -> b1 >= 160 /\ b1 <= 191
                     [] b0 = 237 -> b1 >= 128 /\ b1 <= 159
                     [] OTHER    -> IsCont(b1)
        second4 == CASE b0 = 240 -> b1 >= 144 /\ b1 <= 191
                     [] b0 = 244 -> b1 >= 128 /\ b1 <= 143
                     [] OTHER    -> IsCont(b1)
    IN  CASE b0 < 128 -> 1
          [] b0 >= 194 /\ b0 <= 223 ->
                IF IsCont(b1) THEN 2 ELSE -1
          [] b0 >= 224 /\ b0 <= 239 ->
                IF ~second3 THEN -1
                ELSE IF ~IsCont(b2) THEN -2 ELSE 3
          [] b0 >= 240 /\ b0 <= 244 ->
                IF ~second4 THEN -1
                ELSE IF ~IsCont(b2) THEN -2
                ELSE IF ~IsCont(b3) THEN -3 ELSE 4
          [] OTHER -> -1

\* The first position at or after i that holds a non-ASCII byte, or
\* Len(s) + 1: the end of the run of one-byte scalars starting at i
AsciiRunEnd(s, i) ==
    LET high == {j \in i..Len(s) : s[j] >= 128}
    IN  IF high = {} THEN Len(s) + 1
        ELSE CHOOSE j \in high : \A k \in high : j <= k

RECURSIVE Utf8ValidFrom(_, _)
Utf8ValidFrom(s, i) ==
    LET j == AsciiRunEnd(s, i)
    IN  IF j > Len(s) THEN TRUE
        ELSE Utf8Step(s, j) > 0 /\ Utf8ValidFrom(s, j + Utf8Step(s, j))

\* std::str::from_utf8(s).is_ok()
Utf8Valid(s) == Utf8ValidFrom(s, 1)

\* U+FFFD REPLACEMENT CHARACTER, encoded
Replacement == <<239, 191, 189>>

RECURSIVE LossyFrom(_, _)
LossyFrom(s, i) ==
    LET j == AsciiRunEnd(s, i)
    IN  IF j > Len(s) THEN SubSeq(s, i, Len(s))
        ELSE IF Utf8Step(s, j) > 0
        THEN SubSeq(s, i, j + Utf8Step(s, j) - 1)
               \o LossyFrom(s, j + Utf8Step(s, j))
        ELSE SubSeq(s, i, j - 1) \o Replacement
               \o LossyFrom(s, j - Utf8Step(s, j))

\* String::from_utf8_lossy(s).to_string()
FromUtf8Lossy(s) == LossyFrom(s, 1)

\* Mutant of TrimMatchesNul: trim_start_matches, which leaves the padding
TrimStartMatchesNul(s) ==
    LET keep == {i \in 1..Len(s) : s[i] # 0}
    IN  IF keep = {} THEN <<>>
        ELSE SubSeq(s, CHOOSE i \in keep : \A k \in keep : i <= k, Len(s))

\* str::trim_matches('\0'): what lies between the first and the last
\* character that is not NUL
TrimMatchesNul(s) ==
    LET keep == {i \in 1..Len(s) : s[i] # 0}
    IN  IF keep = {} THEN <<>>
        ELSE SubSeq(s, CHOOSE i \in keep : \A k \in keep : i <= k,
                       CHOOSE i \in keep : \A k \in keep : i >= k)

-----------------------------------------------------------------------------
(* Wire layouts (binrw BinRead structs, read little-endian, no padding) *)

IPCC_PANIC_VERSION_MAX == 63       \* 0x3f

IPCC_PANIC_V1_STACKS == 16         \* 0x10

IPCC_PANIC_V1_DATALEN == 256       \* 0x100

IPCC_PANIC_V1_SYMLEN == 32         \* 0x20

IPCC_PANIC_V1_MSGLEN == 128        \* 0x80

\* A layout is the sequence of <<field, size in bytes>> in declaration order.
RECURSIVE SizeOf(_)
SizeOf(layout) ==
    IF layout = <<>> THEN 0 ELSE layout[1][2] + SizeOf(Tail(layout))

RECURSIVE OffsetOf(_, _)
OffsetOf(layout, field) ==
    IF layout[1][1] = field THEN 0
    ELSE layout[1][2] + OffsetOf(Tail(layout), field)

RECURSIVE WidthOf(_, _)
WidthOf(layout, field) ==
    IF layout[1][1] = field THEN layout[1][2]
    ELSE WidthOf(Tail(layout), field)

\* The bytes of one field of a structure that starts at buf[1]
Field(buf, layout, field) ==
    SubSeq(buf, OffsetOf(layout, field) + 1,
                OffsetOf(layout, field) + WidthOf(layout, field))

IpccPanicStackV1 ==
    << <<"ips_symbol", IPCC_PANIC_V1_SYMLEN>>,
       <<"ips_addr", 8>>,
       <<"ips_offset", 8>> >>

IpccPanicDataV1 ==
    << <<"ipd_version", 1>>,
       <<"ipd_cause", 2>>,
       <<"ipd_error", 4>>,
       <<"ipd_cpuid", 4>>,
       <<"ipd_thread", 8>>,
       <<"ipd_addr", 8>>,
       <<"ipd_pc", 8>>,
       <<"ipd_fp", 8>>,
       <<"ipd_rp", 8>>,
       <<"ipd_message", IPCC_PANIC_V1_MSGLEN>>,
       <<"ipd_stackidx", 1>>,
       <<"ipd_stack", IPCC_PANIC_V1_STACKS * SizeOf(IpccPanicStackV1)>>,
       <<"ipd_dataidx", 1>>,
       <<"ipd_data", IPCC_PANIC_V1_DATALEN>> >>

\* Field order of the raw register block
IpccPanicRegs ==
    <<"savfp", "savpc", "rdi", "rsi", "rdx", "rcx", "r8", "r9", "rax", "rbx",
      "rbp", "r10", "r11", "r12", "r13", "r14", "r15", "fsbase", "gsbase",
      "ds", "es", "fs", "gs", "trapno", "err", "rip", "cs", "rfl", "rsp",
      "ss">>

IpccPanicRegsLayout == [i \in 1..Len(IpccPanicRegs) |-> <<IpccPanicRegs[i], 8>>]

IpccHresTime == << <<"tv_sec", 8>>, <<"tv_nsec", 8>> >>

\* The fixed part of IpccPanicDataV2, up to and including items_len
IpccPanicDataV2 ==
    << <<"version", 1>>,
       <<"cause", 2>>,
       <<"error", 4>>,
       <<"hrtime", 8>>,
       <<"hrestime", SizeOf(IpccHresTime)>>,
       <<"cpuid", 4>>,
       <<"thread", 8>>,
       <<"addr", 8>>,
       <<"pc", 8>>,
       <<"fp", 8>>,
       <<"rp", 8>>,
       <<"registers", SizeOf(IpccPanicRegsLayout)>>,
       <<"nitems", 2>>,
       <<"items_len", 2>> >>

\* Discriminants of IpccPanicItemType (repr u8, declaration order)
IpccPanicItemType == <<"Nop", "Message", "StackEntry", "Ancillary">>

\* IpccPanicDataV1::read_le: Some(buffer of the structure) or None at EOF
ReadV1(buf) ==
    IF Len(buf) < SizeOf(IpccPanicDataV1) THEN <<>>
    ELSE <<SubSeq(buf, 1, SizeOf(IpccPanicDataV1))>>

\* Slot ndx (0-based) of ipd_stack
StackSlotV1(p, ndx) ==
    SubSeq(Field(p, IpccPanicDataV1, "ipd_stack"),
           ndx * SizeOf(IpccPanicStackV1) + 1,
           (ndx + 1) * SizeOf(IpccPanicStackV1))

\* Reads n items (IpccPanicItem) from buf starting after position pos.
\* Result: [err |-> "" or the failure, items |-> the items read].
RECURSIVE ReadItems(_, _, _)
ReadItems(buf, pos, n) ==
    IF n = 0 THEN [err |-> "", items |-> <<>>]
    ELSE IF pos + 1 > Len(buf) THEN [err |-> "TruncatedInput", items |-> <<>>]
    ELSE IF buf[pos + 1] >= Len(IpccPanicItemType) THEN [err |-> "BadItemType", items |-> <<>>]
    ELSE IF pos + 3 > Len(buf) THEN [err |-> "TruncatedInput", items |-> <<>>]
    ELSE LET len   == U16LE(SubSeq(buf, pos + 2, pos + 3))
             count == Max(len - 3, 0)
         IN  IF pos + 3 + count > Len(buf)
             THEN [err |-> "TruncatedInput", items |-> <<>>]
             ELSE LET rest == ReadItems(buf, pos + 3 + count, n - 1)
                      item == [ftype |-> IpccPanicItemType[buf[pos + 1] + 1],
                               len   |-> len,
                               data  |-> SubSeq(buf, pos + 4, pos + 3 + count)]
                  IN  [err |-> rest.err,
                       items |-> IF rest.err = "" THEN <<item>> \o rest.items
                                 ELSE <<>>]

\* IpccPanicDataV2::read_le
ReadV2(buf) ==
    IF Len(buf) < 1 THEN [err |-> "TruncatedInput", hdr |-> <<>>, items |-> <<>>]
    ELSE IF buf[1] # 2 THEN [err |-> "AssertFailed", hdr |-> <<>>, items |-> <<>>]
    ELSE IF Len(buf) < SizeOf(IpccPanicDataV2)
    THEN [err |-> "TruncatedInput", hdr |-> <<>>, items |-> <<>>]
    ELSE LET hdr == SubSeq(buf, 1, SizeOf(IpccPanicDataV2))
             r   == ReadItems(buf, SizeOf(IpccPanicDataV2),
                              U16LE(Field(hdr, IpccPanicDataV2, "nitems")))
         IN  [err |-> r.err, hdr |-> hdr, items |-> r.items]

IpccPanicStack == << <<"addr", 8>>, <<"offset", 8>> >>

\* IpccPanicStack::read_le over an item's payload: Some(frame) or None
ReadStack(payload) ==
    IF Len(payload) < SizeOf(IpccPanicStack) THEN <<>>
    ELSE <<[addr   |-> Field(payload, IpccPanicStack, "addr"),
            offset |-> Field(payload, IpccPanicStack, "offset"),
            symbol |-> SubSeq(payload, SizeOf(IpccPanicStack) + 1, Len(payload))]>>

-----------------------------------------------------------------------------
(* PanicCause *)

\* impl From<u16> for PanicCause
PanicCauseFrom(cause) ==
    CASE cause = 51729 -> <<"Call">>                \* 0xca11
      [] cause = 43264 -> <<"Trap">>                \* 0xa900
      [] cause = 24064 -> <<"UserTrap">>            \* 0x5e00
      [] cause = 60160 -> <<"EarlyBoot">>           \* 0xeb00
      [] cause = 60311 -> <<"EarlyBootPROM">>       \* 0xeb97
      [] cause = 60329 -> <<"EarlyBootTrap">>       \* 0xeba9
      [] cause = 60415 -> <<"EarlyBootUnknown">>    \* 0xebff
      [] OTHER         -> <<"Unknown", cause>>

-----------------------------------------------------------------------------
(* Results *)

Ok(rec) == [tag |-> "OkSome", err |-> "", rec |-> <<rec>>]

OkNone == [tag |-> "OkNone", err |-> "", rec |-> <<>>]

Err(kind) == [tag |-> "Err", err |-> kind, rec |-> <<>>]

\* PanicDataVersion::number
Number(v) == v[2]

-----------------------------------------------------------------------------
(* fix_panic_data *)

\* The guard of the first match arm: the first byte is a version number
IsVersionByte(b) == b < IPCC_PANIC_VERSION_MAX /\ b # 0

\* Mutant of MissingIpdCauseByte: 0xeb reconstructed as 0xeb00
MissingIpdCauseByteEarlyBoot(b) ==
    CASE b = 202 -> 17
      [] b = 94  -> 0
      [] b = 169 -> 0
      [] b = 235 -> 0
      [] OTHER   -> -1

\* The remaining match arms: the missing low byte of ipd_cause, or -1 (bail)
MissingIpdCauseByte(b) ==
    CASE b = 202 -> 17      \* 0xca => 0x11
      [] b = 94  -> 0       \* 0x5e => 0x00
      [] b = 169 -> 0       \* 0xa9 => 0x00
      [] b = 235 -> 255     \* 0xeb => 0xff
      [] OTHER   -> -1

\* Mutant of InferVersion: only the slots below ipd_stackidx are looked at
InferVersionCountedSlots(check) ==
    IF U32LessThan(Field(check, IpccPanicDataV1, "ipd_cpuid"), 512)
       /\ ~\E ndx \in 0..(IPCC_PANIC_V1_STACKS - 1) :
              /\ ndx < Field(check, IpccPanicDataV1, "ipd_stackidx")[1]
              /\ ~Utf8Valid(Field(StackSlotV1(check, ndx), IpccPanicStackV1,
                                  "ips_symbol"))
    THEN 1 ELSE 2

\* The version inferred from the V1-shaped probe
InferVersion(check) ==
    IF U32LessThan(Field(check, IpccPanicDataV1, "ipd_cpuid"), 512)
       /\ ~\E ndx \in 0..(IPCC_PANIC_V1_STACKS - 1) :
              ~Utf8Valid(Field(StackSlotV1(check, ndx), IpccPanicStackV1,
                               "ips_symbol"))
    THEN 1 ELSE 2

\* fix_panic_data(d) for a buffer with at least one byte:
\* [err, version, data]
FixPanicData(buf) ==
    IF IsVersionByte(buf[1])
    THEN [err |-> "", version |-> <<"Determined", buf[1]>>, data |-> buf]
    ELSE IF MissingIpdCauseByte(buf[1]) < 0
    THEN [err |-> "UnrecoverableCauseByte", version |-> <<>>, data |-> <<>>]
    ELSE LET fixed == <<255, MissingIpdCauseByte(buf[1])>> \o buf
             check == ReadV1(fixed)
         IN  IF check = <<>>
             THEN [err |-> "TruncatedInput", version |-> <<>>, data |-> <<>>]
             ELSE [err     |-> "",
                   version |-> <<"Inferred", InferVersion(check[1])>>,
                   data    |-> [fixed EXCEPT ![1] = InferVersion(check[1])]]

-----------------------------------------------------------------------------
(* PanicData::from_v1 *)

\* The StackFrame pushed for a V1 slot
StackFrameV1(slot) ==
    [address |-> Field(slot, IpccPanicStackV1, "ips_addr"),
     offset  |-> Field(slot, IpccPanicStackV1, "ips_offset"),
     symbol  |-> IF Utf8Valid(Field(slot, IpccPanicStackV1, "ips_symbol"))
                 THEN <<TrimMatchesNul(Field(slot, IpccPanicStackV1,
                                             "ips_symbol"))>>
                 ELSE <<>>]

\* Mutant of StackLoopV1: the loop without its break on ipd_stackidx
RECURSIVE StackLoopV1NoBreak(_, _, _)
StackLoopV1NoBreak(p, ndx, stack) ==
    IF ndx >= IPCC_PANIC_V1_STACKS THEN stack
    ELSE StackLoopV1NoBreak(p, ndx + 1,
                            Append(stack, StackFrameV1(StackSlotV1(p, ndx))))

\* The loop over p.ipd_stack.iter().enumerate(), from index ndx on
RECURSIVE StackLoopV1(_, _, _)
StackLoopV1(p, ndx, stack) ==
    IF ndx >= IPCC_PANIC_V1_STACKS THEN stack
    ELSE IF ndx >= Field(p, IpccPanicDataV1, "ipd_stackidx")[1] THEN stack
    ELSE StackLoopV1(p, ndx + 1,
                     Append(stack, StackFrameV1(StackSlotV1(p, ndx))))

\* The message of a V1 record whose ipd_message is valid UTF-8
MessageV1(p) == TrimMatchesNul(Field(p, IpccPanicDataV1, "ipd_message"))

FromV1(ver, buf) ==
    LET r == ReadV1(buf)
        p == r[1]
    IN  IF r = <<>> THEN Err("TruncatedInput")
        ELSE IF ~Utf8Valid(Field(p, IpccPanicDataV1, "ipd_message"))
        THEN Err("InvalidMessageEncoding")
        ELSE Ok([version    |-> ver,
                 cause      |-> PanicCauseFrom(
                                  U16LE(Field(p, IpccPanicDataV1, "ipd_cause"))),
                 error_code |-> Field(p, IpccPanicDataV1, "ipd_error"),
                 cpuid      |-> Field(p, IpccPanicDataV1, "ipd_cpuid"),
                 hrtime     |-> <<>>,
                 time       |-> <<>>,
                 thread     |-> Field(p, IpccPanicDataV1, "ipd_thread"),
                 addr       |-> Field(p, IpccPanicDataV1, "ipd_addr"),
                 pc         |-> Field(p, IpccPanicDataV1, "ipd_pc"),
                 fp         |-> Field(p, IpccPanicDataV1, "ipd_fp"),
                 rp         |-> Field(p, IpccPanicDataV1, "ipd_rp"),
                 message    |-> <<MessageV1(p)>>,
                 registers  |-> <<>>,
                 stack      |-> StackLoopV1(p, 0, <<>>)])

-----------------------------------------------------------------------------
(* PanicData::from_v2 *)

\* items.iter().filter(|i| i.ftype == ftype).collect()
RECURSIVE FilterItems(_, _)
FilterItems(items, ftype) ==
    IF items = <<>> THEN <<>>
    ELSE IF items[1].ftype = ftype
    THEN <<items[1]>> \o FilterItems(Tail(items), ftype)
    ELSE FilterItems(Tail(items), ftype)

\* Mutant of MessageV2: the first Message item wins, however many there are
MessageV2First(messages) ==
    IF Len(messages) = 0 THEN [err |-> "", message |-> <<>>]
    ELSE [err |-> "", message |-> <<FromUtf8Lossy(messages[1].data)>>]

\* The match on messages.len(): [err, message]
MessageV2(messages) ==
    CASE Len(messages) = 0 -> [err |-> "", message |-> <<>>]
      [] Len(messages) = 1 ->
            [err |-> "", message |-> <<FromUtf8Lossy(messages[1].data)>>]
      [] OTHER -> [err |-> "MultipleMessageItems", message |-> <<>>]

\* The StackFrame pushed for a decoded IpccPanicStack
StackFrameV2(ps) ==
    [address |-> ps.addr,
     offset  |-> ps.offset,
     symbol  |-> IF Len(ps.symbol) = 0 THEN <<>>
                 ELSE <<FromUtf8Lossy(ps.symbol)>>]

\* The loop over the StackEntry items: [err, stack]
RECURSIVE StackLoopV2(_, _)
StackLoopV2(entries, stack) ==
    IF entries = <<>> THEN [err |-> "", stack |-> stack]
    ELSE LET ps == ReadStack(entries[1].data)
         IN  IF ps = <<>> THEN [err |-> "MalformedStackItem", stack |-> <<>>]
             ELSE StackLoopV2(Tail(entries), Append(stack, StackFrameV2(ps[1])))

\* The register! invocations, in order
RegisterOrder ==
    <<"rdi", "rsi", "rdx", "rcx", "r8", "r9", "rax", "rbx", "rbp", "r10",
      "r11", "r12", "r13", "r14", "fsbase", "gsbase", "es", "fs", "gs",
      "trapno", "err", "rip", "cs", "rfl", "rsp", "ss">>

\* IndexMap::insert on a map kept as a sequence of <<key, value>>
IndexMapInsert(m, k, v) ==
    IF \E i \in 1..Len(m) : m[i][1] = k
    THEN [i \in 1..Len(m) |-> IF m[i][1] = k THEN <<k, v>> ELSE m[i]]
    ELSE Append(m, <<k, v>>)

RECURSIVE InsertRegisters(_, _, _)
InsertRegisters(m, regs, names) ==
    IF names = <<>> THEN m
    ELSE InsertRegisters(
             IndexMapInsert(m, names[1],
                            Field(regs, IpccPanicRegsLayout, names[1])),
             regs, Tail(names))

\* Mutant of RegistersV2: the map is built whatever the cause
RegistersV2Always(cause, regs) ==
    <<InsertRegisters(<<>>, regs, RegisterOrder)>>

\* The registers field: Some(map) unless the cause is Call
RegistersV2(cause, regs) ==
    IF cause # <<"Call">>
    THEN <<InsertRegisters(<<>>, regs, RegisterOrder)>>
    ELSE <<>>

FromV2(ver, buf) ==
    LET p     == ReadV2(buf)
        msg   == MessageV2(FilterItems(p.items, "Message"))
        stk   == StackLoopV2(FilterItems(p.items, "StackEntry"), <<>>)
        cause == PanicCauseFrom(U16LE(Field(p.hdr, IpccPanicDataV2, "cause")))
        hres  == Field(p.hdr, IpccPanicDataV2, "hrestime")
        nsec  == TryIntoU32(Field(hres, IpccHresTime, "tv_nsec"))
    IN  IF p.err # "" THEN Err(p.err)
        ELSE IF msg.err # "" THEN Err(msg.err)
        ELSE IF stk.err # "" THEN Err(stk.err)
        ELSE IF nsec = <<>> THEN Err("TimestampOverflow")
        ELSE Ok([version    |-> ver,
                 cause      |-> cause,
                 error_code |-> Field(p.hdr, IpccPanicDataV2, "error"),
                 cpuid      |-> Field(p.hdr, IpccPanicDataV2, "cpuid"),
                 hrtime     |-> <<Field(p.hdr, IpccPanicDataV2, "hrtime")>>,
                 time       |-> <<[sec  |-> Field(hres, IpccHresTime, "tv_sec"),
                                   nsec |-> nsec[1]]>>,
                 thread     |-> Field(p.hdr, IpccPanicDataV2, "thread"),
                 addr       |-> Field(p.hdr, IpccPanicDataV2, "addr"),
                 pc         |-> Field(p.hdr, IpccPanicDataV2, "pc"),
                 fp         |-> Field(p.hdr, IpccPanicDataV2, "fp"),
                 rp         |-> Field(p.hdr, IpccPanicDataV2, "rp"),
                 message    |-> msg.message,
                 registers  |-> RegistersV2(
                                  cause,
                                  Field(p.hdr, IpccPanicDataV2, "registers")),
                 stack      |-> stk.stack])

-----------------------------------------------------------------------------
(* PanicData::from_bytes *)

\* Mutant of NoPanicData: only the first byte is looked at
NoPanicDataFirstByte(buf) == IF Len(buf) = 0 THEN TRUE ELSE buf[1] = 0

\* !d.iter().any(|&s| s != 0)
NoPanicData(buf) == ~\E i \in 1..Len(buf) : buf[i] # 0

\* The whole of from_bytes, as a function of the buffer
FromBytes(buf) ==
    IF NoPanicData(buf) THEN OkNone
    ELSE LET f == FixPanicData(buf)
         IN  IF f.err # "" THEN Err(f.err)
             ELSE CASE Number(f.version) = 1 -> FromV1(f.version, f.data)
                    [] Number(f.version) = 2 -> FromV2(f.version, f.data)
                    [] OTHER -> Err("UnsupportedVersion")

-----------------------------------------------------------------------------
(* The buffers handed to the decoder: what the host kernel writes, laid    *)
(* out as IpccPanicDataV1 / IpccPanicDataV2, optionally with the first two *)
(* bytes lost (hubris#1554), plus short and all-zero buffers.              *)

MaxItems == 2      \* longest V2 item list enumerated in full

MaxRawLen == 3     \* longest raw (unstructured) buffer below record size

LE16(n) == <<n % 256, n \div 256>>

PadTo(s, n) == IF Len(s) >= n THEN s ELSE s \o Rep(n - Len(s), 0)

\* Eight distinct bytes for a 64-bit field
Fill(tag) == [i \in 1..8 |-> tag + i - 1]

RECURSIVE Flatten(_)
Flatten(ss) == IF ss = <<>> THEN <<>> ELSE ss[1] \o Flatten(Tail(ss))

\* Symbol field of V1 stack slot ndx under a pattern
SymbolV1(syms, ndx) ==
    CASE syms = "bad0" /\ ndx = 0   -> PadTo(<<255, 102>>, IPCC_PANIC_V1_SYMLEN)
      [] syms = "bad15" /\ ndx = 15 -> PadTo(<<102, 192>>, IPCC_PANIC_V1_SYMLEN)
      [] syms = "full"              -> Rep(IPCC_PANIC_V1_SYMLEN, 65 + ndx)
      [] OTHER -> PadTo(<<102, 110, 48 + ndx>>, IPCC_PANIC_V1_SYMLEN)

SlotV1(syms, ndx) ==
    SymbolV1(syms, ndx) \o <<ndx, 160, 0, 0, 0, 0, 0, 1>>
                        \o <<ndx, 176, 0, 0, 0, 0, 0, 0>>

EncodeV1(fx) ==
    <<fx.vb>> \o LE16(fx.cause) \o <<1, 2, 3, 4>> \o fx.cpuid
      \o Fill(16) \o Fill(32) \o Fill(48) \o Fill(64) \o Fill(80)
      \o PadTo(fx.msg, IPCC_PANIC_V1_MSGLEN)
      \o <<fx.stackidx>>
      \o Flatten([i \in 1..IPCC_PANIC_V1_STACKS |-> SlotV1(fx.syms, i - 1)])
      \o <<0>> \o Rep(IPCC_PANIC_V1_DATALEN, 0)

EncodeItem(it) == <<it.tag>> \o LE16(it.len) \o it.data

EncodeRegs == Flatten([i \in 1..Len(IpccPanicRegs) |-> <<i, 7, 0, 0, 0, 0, 0, i>>])

EncodeV2(fx) ==
    LET body == Flatten([i \in 1..Len(fx.items) |-> EncodeItem(fx.items[i])])
    IN  <<fx.vb>> \o LE16(fx.cause) \o <<1, 2, 3, 4>> \o fx.hrtime
          \o Fill(96) \o fx.nsec \o <<5, 0, 0, 0>>
          \o Fill(16) \o Fill(32) \o Fill(48) \o Fill(64) \o Fill(80)
          \o EncodeRegs
          \o LE16(Len(fx.items)) \o LE16(Len(body)) \o body

\* The buffer the decoder receives for a sent record
Buffer(fx) ==
    CASE fx.kind = "raw" -> fx.bytes
      [] fx.kind = "v1"  ->
            SubSeq(EncodeV1(fx), fx.drop + 1, SizeOf(IpccPanicDataV1))
      [] fx.kind = "v2"  ->
            LET e == PadTo(EncodeV2(fx), fx.pad)
            IN  SubSeq(e, fx.drop + 1, Len(e) - fx.cut)

FirstBytes == {0, 1, 2, 3, 62, 63, 64, 94, 169, 202, 235, 255}

RawInputs ==
    {[kind |-> "raw", bytes |-> Rep(n, 0)] :
        n \in (0..MaxRawLen) \cup {SizeOf(IpccPanicDataV1)}}
    \cup {[kind |-> "raw", bytes |-> <<b>> \o Rep(n, t)] :
            b \in FirstBytes, n \in 0..(MaxRawLen - 1), t \in {0, 7}}
    \cup {[kind |-> "raw", bytes |-> Rep(n, 0) \o <<9>>] : n \in 1..MaxRawLen}
    \cup {[kind |-> "raw",
           bytes |-> <<b>> \o Rep(SizeOf(IpccPanicDataV1), 0)] :
            b \in FirstBytes \ {0}}

Cpuid3 == <<3, 0, 0, 0>>

Cpuids == {Cpuid3, <<255, 1, 0, 0>>, <<0, 2, 0, 0>>, <<160, 134, 1, 0>>}

\* 0xca11, 0xa900, 0x5e00, 0xebff, 0xeb97, 0x1234
Causes == {51729, 43264, 24064, 60415, 60311, 4660}

MessagesV1 ==
    {<<>>, <<104, 105>>, <<0, 104, 105>>, <<104, 0, 105>>, <<195, 169>>,
     <<255>>, Rep(IPCC_PANIC_V1_MSGLEN - 1, 65) \o <<195>>,
     Rep(IPCC_PANIC_V1_MSGLEN, 65)}

StackIdxs == {0, 2, 16, 17, 255}

V1Inputs ==
    {[kind |-> "v1", vb |-> 1, cause |-> c, cpuid |-> Cpuid3, msg |-> m,
      stackidx |-> n, syms |-> y, drop |-> 0] :
        c \in {51729, 43264}, m \in MessagesV1, n \in StackIdxs,
        y \in {"ascii", "bad0", "bad15", "full"}}
    \cup
    {[kind |-> "v1", vb |-> v, cause |-> c, cpuid |-> id, msg |-> <<104, 105>>,
      stackidx |-> 2, syms |-> y, drop |-> 0] :
        v \in FirstBytes \ {0}, c \in {51729, 4660}, id \in {Cpuid3},
        y \in {"ascii"}}
    \cup
    {[kind |-> "v1", vb |-> 1, cause |-> c, cpuid |-> id, msg |-> <<104, 105>>,
      stackidx |-> 2, syms |-> y, drop |-> 2] :
        c \in Causes, id \in Cpuids, y \in {"ascii", "bad0", "bad15"}}

Addr1 == <<1, 2, 3, 4, 5, 6, 7, 8>>

Addr2 == <<9, 10, 11, 12, 13, 14, 15, 16>>

Item(tag, payload) == [tag |-> tag, len |-> 3 + Len(payload), data |-> payload]

ItemAlphabet ==
    {Item(0, <<>>),
     [tag |-> 0, len |-> 0, data |-> <<>>],
     Item(1, <<104, 105>>),
     Item(1, <<255, 0>>),
     Item(2, Addr1 \o Addr2 \o <<102, 237>>),
     Item(2, Addr2 \o Addr1),
     Item(2, <<1, 2, 3>>),
     Item(3, <<1, 2>>),
     Item(4, <<>>)}

ItemLists(n) == UNION {[1..k -> ItemAlphabet] : k \in 0..n}

HrtimeSmall == <<3, 0, 0, 0, 0, 0, 0, 0>>

HrtimeLarge == <<0, 202, 154, 59, 1, 0, 0, 0>>

NsecSmall == <<21, 205, 91, 7, 0, 0, 0, 0>>

Nsecs ==
    {NsecSmall, <<255, 255, 255, 255, 0, 0, 0, 0>>, <<0, 0, 0, 0, 1, 0, 0, 0>>,
     <<1, 0, 0, 0, 0, 0, 0, 128>>}

V2Inputs ==
    {[kind |-> "v2", vb |-> 2, cause |-> c, hrtime |-> HrtimeLarge,
      nsec |-> NsecSmall, items |-> its, drop |-> 0, pad |-> 0, cut |-> 0] :
        c \in {51729, 43264}, its \in ItemLists(MaxItems)}
    \cup
    {[kind |-> "v2", vb |-> 2, cause |-> c, hrtime |-> h,
      nsec |-> ns, items |-> its, drop |-> dr,
      pad |-> SizeOf(IpccPanicDataV1), cut |-> 0] :
        c \in Causes, h \in {HrtimeSmall, HrtimeLarge}, ns \in Nsecs,
        its \in {<<>>, <<Item(1, <<104, 105>>)>>,
                 <<Item(1, <<104>>), Item(1, <<105>>)>>,
                 <<Item(1, <<104>>), Item(2, <<1>>), Item(1, <<105>>)>>,
                 <<Item(2, <<1>>)>>},
        dr \in {0, 2}}
    \cup
    {[kind |-> "v2", vb |-> v, cause |-> 43264, hrtime |-> HrtimeLarge,
      nsec |-> NsecSmall, items |-> <<>>, drop |-> 0, pad |-> 0, cut |-> 0] :
        v \in FirstBytes \ {0}}
    \cup
    {[kind |-> "v2", vb |-> 2, cause |-> 43264, hrtime |-> HrtimeLarge,
      nsec |-> NsecSmall, items |-> its, drop |-> 0, pad |-> 0, cut |-> k] :
        its \in ItemLists(1), k \in 1..MaxRawLen}

Inputs == RawInputs \cup V1Inputs \cup V2Inputs

-----------------------------------------------------------------------------
(* The decoder as a state machine: one call of PanicData::from_bytes *)

Init ==
    /\ sent \in Inputs
    /\ d = Buffer(sent)
    /\ pc = "start"
    /\ version = <<>>
    /\ data = <<>>
    /\ parser = "none"
    /\ result = <<>>

\* from_bytes, first arm: no byte of the buffer is nonzero
NoData ==
    /\ pc = "start"
    /\ NoPanicData(d)
    /\ pc' = "done"
    /\ result' = <<OkNone>>
    /\ UNCHANGED <<sent, d, version, data, parser>>

\* from_bytes, second arm: the call of fix_panic_data and its `?`
Fix ==
    /\ pc = "start"
    /\ ~NoPanicData(d)
    /\ LET f == FixPanicData(d)
       IN  IF f.err # ""
           THEN /\ pc' = "done"
                /\ result' = <<Err(f.err)>>
                /\ UNCHANGED <<version, data>>
           ELSE /\ pc' = "fixed"
                /\ version' = <<f.version>>
                /\ data' = f.data
                /\ UNCHANGED result
    /\ UNCHANGED <<sent, d, parser>>

\* match version.number() { 1 => from_v1 }
DecodeV1 ==
    /\ pc = "fixed"
    /\ Number(version[1]) = 1
    /\ pc' = "done"
    /\ parser' = "v1"
    /\ result' = <<FromV1(version[1], data)>>
    /\ UNCHANGED <<sent, d, version, data>>

\* match version.number() { 2 => from_v2 }
DecodeV2 ==
    /\ pc = "fixed"
    /\ Number(version[1]) = 2
    /\ pc' = "done"
    /\ parser' = "v2"
    /\ result' = <<FromV2(version[1], data)>>
    /\ UNCHANGED <<sent, d, version, data>>

\* match version.number() { n => bail }
Unsupported ==
    /\ pc = "fixed"
    /\ Number(version[1]) \notin {1, 2}
    /\ pc' = "done"
    /\ result' = <<Err("UnsupportedVersion")>>
    /\ UNCHANGED <<sent, d, version, data, parser>>

Next == NoData \/ Fix \/ DecodeV1 \/ DecodeV2 \/ Unsupported

Spec == Init /\ [][Next]_vars

-----------------------------------------------------------------------------
(* Properties *)

Done == pc = "done"

\* from_bytes returned Ok(Some(record))
Returned == pc = "done" /\ result[1].tag = "OkSome"

Record == result[1].rec[1]

\* fix_panic_data was called and has returned (with a value or an error)
Compensated == pc = "fixed" \/ (pc = "done" /\ result[1].tag # "OkNone")

\* C1: for a non-all-zero buffer whose first byte b is in 1..0x3f,
\* fix_panic_data reports Determined(b) and returns the buffer unchanged,
\* also at b = 0x3f.
C1_DeterminedUnchanged ==
    (Compensated /\ d[1] >= 1 /\ d[1] <= 63)
        => (version = <<<<"Determined", d[1]>>>> /\ data = d)

\* C2: from_bytes returns Ok(None) if and only if every byte of the buffer
\* is zero; a buffer with a nonzero byte yields Ok(Some(record)) or an error.
C2_NoneIffAllZero ==
    Done => /\ (result[1].tag = "OkNone") <=> AllZeroBytes(d)
            /\ ~AllZeroBytes(d) => result[1].tag \in {"OkSome", "Err"}
            /\ AllZeroBytes(d) => (version = <<>> /\ parser = "none")

\* C2 witness: an all-zero buffer of full record size was decoded to Ok(None)
C2_Witness ==
    /\ Done
    /\ Len(d) >= SizeOf(IpccPanicDataV1)
    /\ AllZeroBytes(d)
    /\ result[1].tag = "OkNone"

\* C3: a returned record has version 1 (from the V1 parser) or 2 (from the
\* V2 parser); every input whose first byte is a version in 3..0x3f fails
\* with UnsupportedVersion; an inferred version is 1 or 2.
C3_VersionOneOrTwo ==
    /\ Returned =>
          /\ Number(Record.version) \in {1, 2}
          /\ Number(Record.version) = 1 <=> parser = "v1"
          /\ Number(Record.version) = 2 <=> parser = "v2"
    /\ (Done /\ ~AllZeroBytes(d) /\ d[1] >= 3 /\ d[1] <= 63)
          => result[1] = Err("UnsupportedVersion")
    /\ (version # <<>> /\ version[1][1] = "Inferred")
          => Number(version[1]) \in {1, 2}

\* The 26 register names of the canonical display order
C4_Keys ==
    <<"rdi", "rsi", "rdx", "rcx", "r8", "r9", "rax", "rbx", "rbp", "r10",
      "r11", "r12", "r13", "r14", "fsbase", "gsbase", "es", "fs", "gs",
      "trapno", "err", "rip", "cs", "rfl", "rsp", "ss">>

\* The eight bytes of the named field of the raw register block of `data`:
\* the block starts 75 bytes into the V2 header, fields in declared order
C4_RawRegister(name) ==
    LET k == CHOOSE i \in 1..Len(IpccPanicRegs) : IpccPanicRegs[i] = name
    IN  SubSeq(data, 75 + 8 * (k - 1) + 1, 75 + 8 * k)

\* C4: registers is present exactly when the record is V2 and its cause is
\* not Call (raw code 0xca11); when present it has exactly the 26 keys of
\* the canonical order, each with the value of the same-named raw field.
C4_Registers ==
    Returned =>
        /\ (Record.registers # <<>>)
              <=> (parser = "v2" /\ Record.cause # <<"Call">>)
        /\ parser = "v1" => Record.registers = <<>>
        /\ (parser = "v2" /\ data[2] = 17 /\ data[3] = 202)
              => Record.registers = <<>>
        /\ (parser = "v2" /\ ~(data[2] = 17 /\ data[3] = 202))
              => Record.registers # <<>>
        /\ Record.registers # <<>> =>
              LET m == Record.registers[1]
              IN  /\ [i \in 1..Len(m) |-> m[i][1]] = C4_Keys
                  /\ \A i \in 1..Len(m) : m[i][2] = C4_RawRegister(m[i][1])

\* C4 witness: a V2 record with cause Call and a nonzero raw register
\* block was returned without registers
C4_Witness ==
    /\ Returned
    /\ parser = "v2"
    /\ Record.cause = <<"Call">>
    /\ ~AllZeroBytes(C4_RawRegister("rip"))
    /\ Record.registers = <<>>

\* C5: the message of every returned record, V1 or V2, does not end with a
\* NUL byte.
C5_MessageTrimmed ==
    (Returned /\ Record.message # <<>>) =>
        LET m == Record.message[1]
        IN  m = <<>> \/ m[Len(m)] # 0

\* The payload of the Message item of the V2 record in `data`
C5_Payload ==
    LET items == ReadV2(data).items
    IN  items[CHOOSE i \in 1..Len(items) : items[i].ftype = "Message"].data

\* C5 as amended: the message of a returned V1 record neither starts nor
\* ends with a NUL byte; the message of a returned V2 record is the lossy
\* decoding of the Message item's payload, untrimmed, so that it ends with
\* NUL exactly when the payload does.
C5_MessageTrimmedV1 ==
    (Returned /\ Record.message # <<>>) =>
        LET m == Record.message[1]
        IN  /\ parser = "v1" => (m = <<>> \/ (m[1] # 0 /\ m[Len(m)] # 0))
            /\ parser = "v2" =>
                  /\ m = FromUtf8Lossy(C5_Payload)
                  /\ C5_Payload # <<>> =>
                        (m[Len(m)] = 0 <=> C5_Payload[Len(C5_Payload)] = 0)

\* C5 witness: a V1 record whose message field is text followed by NUL
\* padding was returned
C5_Witness ==
    /\ Returned
    /\ parser = "v1"
    /\ data[52] # 0
    /\ data[51 + IPCC_PANIC_V1_MSGLEN] = 0
    /\ Record.message[1] # <<>>

\* The items of a sent item list that are Message or StackEntry items
RECURSIVE C6_Strip(_)
C6_Strip(items) ==
    IF items = <<>> THEN <<>>
    ELSE IF items[1].tag \in {1, 2} THEN <<items[1]>> \o C6_Strip(Tail(items))
    ELSE C6_Strip(Tail(items))

\* C6: Nop items, Ancillary items and items of an unrecognized type do not
\* make the decode fail and do not change its outcome: a V2 record decodes
\* to what the same record without those items decodes to.
C6_InertItems ==
    (Done /\ sent.kind = "v2" /\ sent.cut = 0) =>
        result[1] = FromBytes(Buffer([sent EXCEPT !.items = C6_Strip(@)]))

\* Bytes 181 + 48 i .. 228 + 48 i of the V1 record in `data` are frame
\* slot i: 32 bytes of symbol, the address, the offset
C7_Slot(i) == SubSeq(data, 181 + 48 * i, 228 + 48 * i)

C7_FrameOfSlot(i) ==
    [address |-> SubSeq(C7_Slot(i), 33, 40),
     offset  |-> SubSeq(C7_Slot(i), 41, 48),
     symbol  |-> IF Utf8Valid(SubSeq(C7_Slot(i), 1, 32))
                 THEN <<TrimMatchesNul(SubSeq(C7_Slot(i), 1, 32))>>
                 ELSE <<>>]

\* The positions of the StackEntry items in the item list of `data`
C7_Entries ==
    LET items == ReadV2(data).items
    IN  {i \in 1..Len(items) : items[i].ftype = "StackEntry"}

\* The k-th smallest element of a set of numbers
C7_Nth(S, k) == CHOOSE i \in S : Cardinality({j \in S : j <= i}) = k

C7_FrameOfEntry(k) ==
    LET payload == ReadV2(data).items[C7_Nth(C7_Entries, k)].data
    IN  [address |-> SubSeq(payload, 1, 8),
         offset  |-> SubSeq(payload, 9, 16),
         symbol  |-> IF Len(payload) = 16 THEN <<>>
                     ELSE <<FromUtf8Lossy(SubSeq(payload, 17, Len(payload)))>>]

\* The V2 half of C7: one frame per StackEntry item, in item order
C7_StackV2 ==
    (Returned /\ parser = "v2") =>
        /\ Len(Record.stack) = Cardinality(C7_Entries)
        /\ \A k \in 1..Len(Record.stack) : Record.stack[k] = C7_FrameOfEntry(k)

\* C7: the stack of a V1 record is exactly the first stackidx frame slots,
\* in slot order; the stack of a V2 record has one frame per StackEntry
\* item, in item order.
C7_StackOrder ==
    /\ (Returned /\ parser = "v1") =>
          /\ Len(Record.stack) = data[180]
          /\ \A k \in 1..Len(Record.stack) :
                Record.stack[k] = C7_FrameOfSlot(k - 1)
    /\ C7_StackV2

\* C7 as amended: the stack of a V1 record is exactly the first
\* min(stackidx, 16) frame slots, in slot order; the V2 half is unchanged.
C7_StackOrderCapped ==
    /\ (Returned /\ parser = "v1") =>
          /\ Len(Record.stack) = Min(data[180], 16)
          /\ \A k \in 1..Len(Record.stack) :
                Record.stack[k] = C7_FrameOfSlot(k - 1)
    /\ C7_StackV2

\* C7 witness: a V1 record with stackidx = 2 and a populated slot 2 was
\* returned with two frames
C7_Witness ==
    /\ Returned
    /\ parser = "v1"
    /\ data[180] = 2
    /\ ~AllZeroBytes(C7_Slot(2))
    /\ Len(Record.stack) = 2

\* The positions of the Message items in the item list of `data`
C8_Messages ==
    LET items == ReadV2(data).items
    IN  {i \in 1..Len(items) : items[i].ftype = "Message"}

\* No later step of from_v2 fails: every StackEntry payload holds its
\* address and offset, and the nanoseconds fit in 32 bits
C8_RestDecodes ==
    /\ \A i \in C7_Entries : Len(ReadV2(data).items[i].data) >= 16
    /\ AllZeroBytes(SubSeq(data, 28, 31))

\* C8: for a V2 record that deserializes, no Message item gives message =
\* None, one gives Some(lossy decoding of its payload) and never fails on
\* invalid UTF-8, two or more fail with MultipleMessageItems.
C8_MessageCount ==
    (Done /\ parser = "v2" /\ ReadV2(data).err = "") =>
        /\ Cardinality(C8_Messages) >= 2
              <=> result[1] = Err("MultipleMessageItems")
        /\ (Cardinality(C8_Messages) <= 1 /\ C8_RestDecodes) => Returned
        /\ (Cardinality(C8_Messages) = 0 /\ Returned) => Record.message = <<>>
        /\ (Cardinality(C8_Messages) = 1 /\ Returned) =>
              Record.message =
                <<FromUtf8Lossy(
                    ReadV2(data).items[C7_Nth(C8_Messages, 1)].data)>>

\* C8 witness: a V2 record with two Message items failed
C8_Witness ==
    /\ Done
    /\ parser = "v2"
    /\ Cardinality(C8_Messages) = 2
    /\ result[1] = Err("MultipleMessageItems")

\* The raw tv_nsec of the V2 record in `data` does not fit in 32 bits
C9_Overflow == ~AllZeroBytes(SubSeq(data, 28, 31))

\* What C9 says of the records that are returned
C9_Times ==
    /\ (Returned /\ parser = "v2") =>
          /\ Record.time # <<>>
          /\ Record.time[1].nsec = SubSeq(data, 24, 27)
          /\ AllZeroBytes(SubSeq(data, 28, 31))
          /\ Record.time[1].sec = SubSeq(data, 16, 23)
          /\ Record.hrtime = <<SubSeq(data, 8, 15)>>
    /\ (Returned /\ parser = "v1") =>
          (Record.time = <<>> /\ Record.hrtime = <<>>)

\* C9: a V2 record whose raw nanoseconds exceed 2^32 - 1 fails with
\* TimestampOverflow; a returned V2 record has wall_time (nsec the raw
\* value, below 2^32, sec the raw seconds) and monotonic_time, a returned
\* V1 record has neither.
C9_TimestampOverflow ==
    /\ (Done /\ parser = "v2" /\ ReadV2(data).err = "" /\ C9_Overflow)
          => result[1] = Err("TimestampOverflow")
    /\ C9_Times

\* C9 as amended: such a record fails, with TimestampOverflow unless it
\* also has several Message items or a StackEntry item too short for its
\* address and offset, which are reported first.
C9_TimestampOverflowLast ==
    /\ (Done /\ parser = "v2" /\ ReadV2(data).err = "" /\ C9_Overflow) =>
          /\ result[1].tag = "Err"
          /\ result[1].err = "TimestampOverflow"
                <=> /\ Cardinality(C8_Messages) <= 1
                    /\ \A i \in C7_Entries :
                          Len(ReadV2(data).items[i].data) >= 16
    /\ C9_Times

\* C9 witness: a V2 record with raw nanoseconds of 2^32 or more failed with
\* TimestampOverflow
C9_Witness ==
    /\ Done
    /\ parser = "v2"
    /\ result[1] = Err("TimestampOverflow")
    /\ C9_Overflow

\* The low cause byte the claim gives for a first byte
C10_Low(b) ==
    CASE b = 202 -> 17 [] b = 94 -> 0 [] b = 169 -> 0 [] b = 235 -> 255

\* The cause the claim gives for a first byte
C10_Cause(b) ==
    CASE b = 202 -> <<"Call">>
      [] b = 94  -> <<"UserTrap">>
      [] b = 169 -> <<"Trap">>
      [] b = 235 -> <<"EarlyBootUnknown">>

\* C10: for a non-all-zero buffer whose first byte b is no version number:
\* if b is 0xca, 0x5e, 0xa9 or 0xeb and the probe parses, the corrected
\* buffer is <<inferred version, low(b)>> followed by the buffer, the cause
\* read from it is b * 256 + low(b), and a record with an Inferred version
\* has the cause Call, UserTrap, Trap or EarlyBootUnknown of its b; for any
\* other b the decode fails with UnrecoverableCauseByte.
C10_Reconstruction ==
    /\ (Compensated /\ ~(d[1] >= 1 /\ d[1] <= 63)) =>
          IF d[1] \in {202, 94, 169, 235}
          THEN IF Len(d) + 2 < 1205
               THEN result = <<Err("TruncatedInput")>>
               ELSE /\ version # <<>>
                    /\ version[1][1] = "Inferred"
                    /\ Number(version[1]) \in {1, 2}
                    /\ data = <<Number(version[1]), C10_Low(d[1])>> \o d
                    /\ data[2] + 256 * data[3] = d[1] * 256 + C10_Low(d[1])
                    /\ Returned => /\ Record.version = version[1]
                                   /\ Record.cause = C10_Cause(d[1])
          ELSE result = <<Err("UnrecoverableCauseByte")>>
    /\ (Returned /\ Record.version[1] = "Inferred") =>
          /\ d[1] \in {202, 94, 169, 235}
          /\ Record.cause = C10_Cause(d[1])

\* C10 witness: a buffer that starts with 0xeb was decoded to a record with
\* an inferred version and the cause EarlyBootUnknown
C10_Witness ==
    /\ Returned
    /\ d[1] = 235
    /\ Record.version[1] = "Inferred"
    /\ Record.cause = <<"EarlyBootUnknown">>

\* fix_panic_data reconstructed the buffer and inferred a version
C11_Reconstructed == version # <<>> /\ version[1][1] = "Inferred"

\* The CPU id of the V1-shaped probe, bytes 8..11 of the corrected buffer,
\* is below 512 = 0x200
C11_CpuidBelow512 ==
    data[11] = 0 /\ data[10] = 0 /\ data[9] <= 1

\* The 32-byte symbol field of frame slot i of the V1-shaped probe
C11_Symbol(i) == SubSeq(data, 181 + 48 * i, 212 + 48 * i)

\* C11: when the buffer is reconstructed, the inferred version is 1 if and
\* only if the probe's CPU id is below 512 and every one of the 16 symbol
\* slots is valid UTF-8, whatever the stack-frame count byte; otherwise it
\* is 2; byte 0 of the corrected buffer is the inferred version.
C11_InferredVersion ==
    C11_Reconstructed =>
        /\ Number(version[1]) = 1
              <=> /\ C11_CpuidBelow512
                  /\ \A i \in 0..15 : Utf8Valid(C11_Symbol(i))
        /\ Number(version[1]) = 2
              <=> \/ ~C11_CpuidBelow512
                  \/ \E i \in 0..15 : ~Utf8Valid(C11_Symbol(i))
        /\ data[1] = Number(version[1])

\* C11 witness: a reconstructed buffer with CPU id below 512 and two stack
\* frames counted, whose slot 15 is not valid UTF-8, was inferred to be
\* version 2
C11_Witness ==
    /\ C11_Reconstructed
    /\ C11_CpuidBelow512
    /\ data[180] = 2
    /\ \A i \in 0..14 : Utf8Valid(C11_Symbol(i))
    /\ ~Utf8Valid(C11_Symbol(15))
    /\ Number(version[1]) = 2

=============================================================================
